---- MODULE Spec2Model ----
(***************************************************************************)
(* ICABAR framework: the IntegrationModule (weighted rank-based ensemble)  *)
(* and the configuration validator.                                        *)
(*                                                                         *)
(* Numbers.  Python floats are modelled by exact rationals.  Ensemble      *)
(* weights are integers in units of 1/One (One stands for 1.0), the        *)
(* novelty factor is an integer in units of 1/NoveltyOne, and a score is a *)
(* record [n |-> numerator, d |-> denominator] with d > 0.  Rounding of    *)
(* IEEE doubles is not modelled.                                           *)
(***************************************************************************)
EXTENDS Integers, Sequences, FiniteSets, TLC

----------------------------------------------------------------------------
(* Bounds of the model *)

\* longest input list handed to integrate
MaxLen == 3

\* longest ensemble_weights list handed to validate_config
MaxWeightLen == 4

\* the item identifiers
Items == {"A", "B", "C"}

\* most interactions in a training set
MaxRows == 3

----------------------------------------------------------------------------
(* Number representation *)

\* the weight 1.0, in weight units (one unit is 5e-7)
One == 2000000

\* the tolerance 1e-6 of the sum constraint, in weight units
Tol == 2

\* the factor 1 of (1 + novelty_factor), in novelty units (tenths)
NoveltyOne == 10

\* an optional value: <<>> is "absent", <<v>> is "present with value v"
None == <<>>

Some(v) == <<v>>

Rat(n, d) == [n |-> n, d |-> d]

Zero == Rat(0, 1)

\* a < b for rationals with positive denominators; the integer parts are
\* compared first so that no product leaves the range of the integers
RatLess(a, b) ==
    LET qa == a.n \div a.d
        qb == b.n \div b.d
        ra == a.n % a.d
        rb == b.n % b.d
    IN  \/ qa < qb
        \/ qa = qb /\ ra * b.d < rb * a.d

RatEq(a, b) == ~RatLess(a, b) /\ ~RatLess(b, a)

RatNonNeg(a) == a.n >= 0

\* a Python number: float |-> TRUE for a float, FALSE for an int
Float(v) == [float |-> TRUE, v |-> v]

PyInt(v) == [float |-> FALSE, v |-> v]

\* isinstance(x, int)
IsInt(x) == ~x.float

\* the value of an ensemble_weights entry: a list (or a tuple) of numbers
PyList(elems) == [is_list |-> TRUE, elems |-> elems]

PyTuple(elems) == [is_list |-> FALSE, elems |-> elems]

RECURSIVE SumV(_)
SumV(s) == IF s = <<>> THEN 0 ELSE Head(s).v + SumV(Tail(s))

Abs(x) == IF x < 0 THEN -x ELSE x

\* dict.get(key, default) on an optional entry
Get(opt, default) == IF opt = None THEN default ELSE opt[1]

\* d.get(item, 0) on a score map
ScoreGet(m, item) == IF item \in DOMAIN m THEN m[item] ELSE Zero

\* d[key] = value
DictSet(m, k, v) == [x \in (DOMAIN m) \cup {k} |-> IF x = k THEN v ELSE m[x]]

EmptyMap == [x \in {} |-> Zero]

Range(s) == {s[i] : i \in 1..Len(s)}

----------------------------------------------------------------------------
(* utils/config.py *)

\* get_default_config(): 'ensemble_weights': [0.4, 0.3, 0.3]
DefaultWeights == PyList(<<Float(800000), Float(600000), Float(600000)>>)

\* get_default_config()['integration']
DefaultIntegration ==
    [ensemble_weights |-> Some(DefaultWeights),
     confidence_threshold |-> Some(6),
     diversity_factor |-> Some(2),
     novelty_factor |-> Some(1)]

\* get_default_config()['user_analytics']; only n_clusters is ever validated
DefaultUserAnalytics == [n_clusters |-> Some(PyInt(5))]

\* get_default_config()['context_engine']; its keys are never validated
DefaultContextEngine == [similarity_threshold |-> Some(7)]

get_default_config ==
    [user_analytics |-> Some(DefaultUserAnalytics),
     context_engine |-> Some(DefaultContextEngine),
     integration |-> Some(DefaultIntegration)]

\* line 41: the shape test on the weights
WeightsShapeOK(weights) ==
    /\ weights.is_list
    /\ Len(weights.elems) = 3
    /\ \A i \in 1..Len(weights.elems) : weights.elems[i].float

\* defective variant: no tolerance
WeightsSumOKExact(weights) == SumV(weights.elems) = One

\* line 44: the sum test on the weights
WeightsSumOK(weights) == ~(Abs(SumV(weights.elems) - One) > Tol)

\* defective variant: zero clusters pass
ClustersRejectedBelowZero(n_clusters) == ~IsInt(n_clusters) \/ n_clusters.v < 0

\* line 37: not isinstance(n_clusters, int) or n_clusters <= 0
ClustersRejected(n_clusters) == ~IsInt(n_clusters) \/ n_clusters.v <= 0

\* validate_config(config): "ok" when it returns, else the exception raised
validate_config(cfg) ==
    IF cfg.user_analytics = None \/ cfg.context_engine = None \/ cfg.integration = None
    THEN "ValueError_keys"
    ELSE LET ua == cfg.user_analytics[1]
             integ == cfg.integration[1]
         IN  IF ua.n_clusters = None THEN "KeyError"
             ELSE IF ClustersRejected(ua.n_clusters[1])
                  THEN "ValueError_n_clusters"
             ELSE IF integ.ensemble_weights = None THEN "KeyError"
             ELSE IF ~WeightsShapeOK(integ.ensemble_weights[1])
                  THEN "ValueError_shape"
             ELSE IF ~WeightsSumOK(integ.ensemble_weights[1])
                  THEN "ValueError_sum"
             ELSE "ok"

----------------------------------------------------------------------------
(* models/integration.py: the pure steps of integrate *)

\* lines 62-63: {item: 1 / (i + 1) for i, item in enumerate(predictions)},
\* a one-pass build in which a later occurrence of a key overwrites the
\* earlier value; i is the 1-based position, so the score is 1 / i
RECURSIVE BuildScores(_, _, _)
BuildScores(predictions, i, m) ==
    IF i > Len(predictions) THEN m
    ELSE BuildScores(predictions, i + 1, DictSet(m, predictions[i], Rat(1, i)))

RankScores(predictions) == BuildScores(predictions, 1, EmptyMap)

\* line 67: set(user_predictions) | set(context_predictions)
Universe(user_preds, context_preds) == Range(user_preds) \cup Range(context_preds)

\* defective variant: a set is iterated in the order of the item names
EnumerateByName(S, order) == SelectSeq(<<"A", "B", "C">>, LAMBDA x : x \in S)

\* the order in which Python iterates over a set of strings: fixed by the
\* process's hash seed, here the order of the items in hash_order
Enumerate(S, order) == SelectSeq(order, LAMBDA x : x \in S)

\* defective variant: the third weight is added in
WeightedSumWithThird(w_user, w_context, w_integration, score_u, score_c) ==
    Rat(w_user * score_u.n * score_c.d + w_context * score_c.n * score_u.d
          + w_integration * score_u.d * score_c.d,
        score_u.d * score_c.d)

\* line 72: (w_user * score_u) + (w_context * score_c)
WeightedSum(w_user, w_context, w_integration, score_u, score_c) ==
    Rat(w_user * score_u.n * score_c.d + w_context * score_c.n * score_u.d,
        score_u.d * score_c.d)

\* lines 69-72: the loop over all_items
CombineScores(universe, user_scores_, context_scores_, w_user, w_context, w_integration) ==
    [item \in universe |->
        WeightedSum(w_user, w_context, w_integration,
                    ScoreGet(user_scores_, item), ScoreGet(context_scores_, item))]

\* defective variant: only items unknown to the user model are boosted
NoveltyBoostUnseen(scores, novelty, user_scores_) ==
    [item \in DOMAIN scores |->
        IF item \in DOMAIN user_scores_
        THEN Rat(scores[item].n * NoveltyOne, scores[item].d * NoveltyOne)
        ELSE Rat(scores[item].n * (NoveltyOne + novelty), scores[item].d * NoveltyOne)]

\* line 81: combined_scores[item] *= (1 + novelty_factor)
NoveltyAdjust(scores, novelty, user_scores_) ==
    [item \in DOMAIN scores |->
        Rat(scores[item].n * (NoveltyOne + novelty), scores[item].d * NoveltyOne)]

\* defective variant: ascending order
InsertAsc(sorted, x, scores) ==
    LET k == Cardinality({i \in 1..Len(sorted) : ~RatLess(scores[x], scores[sorted[i]])})
    IN  SubSeq(sorted, 1, k) \o <<x>> \o SubSeq(sorted, k + 1, Len(sorted))

\* line 84: sorted(keys, key=score, reverse=True); the sort is stable, so
\* keys of equal score keep the order in which the dict enumerates them
InsertDesc(sorted, x, scores) ==
    LET k == Cardinality({i \in 1..Len(sorted) : ~RatLess(scores[sorted[i]], scores[x])})
    IN  SubSeq(sorted, 1, k) \o <<x>> \o SubSeq(sorted, k + 1, Len(sorted))

\* defective variant: the keys are returned as enumerated
SortedAsEnumerated(keys, scores) == keys

RECURSIVE SortedDesc(_, _)
SortedDesc(keys, scores) ==
    IF keys = <<>> THEN <<>>
    ELSE InsertDesc(SortedDesc(SubSeq(keys, 1, Len(keys) - 1), scores),
                    keys[Len(keys)], scores)

\* defective variant: the commented-out filter is applied
ReturnedAboveThreshold(recommendations, scores, threshold) ==
    SelectSeq(recommendations,
              LAMBDA x : ~RatLess(scores[x], Rat(threshold * One, 10)))

\* lines 88-91: confidence_threshold is read and the sorted list is returned
\* whole; the filter on the threshold is commented out in the source
Returned(recommendations, scores, threshold) == recommendations

----------------------------------------------------------------------------
(* The inputs *)

\* the lists of item identifiers of length at most n
RECURSIVE ListsUpTo(_)
ListsUpTo(n) ==
    IF n = 0 THEN {<<>>}
    ELSE LET shorter == ListsUpTo(n - 1)
         IN  shorter \cup {Append(l, x) : l \in {m \in shorter : Len(m) = n - 1}, x \in Items}

Lists == ListsUpTo(MaxLen)

\* The orders in which a process may iterate over a set of items (fixed by
\* the hash seed of the process).  Item identifiers are opaque to the code,
\* so every other order is one of these two under a renaming of the items;
\* the two orders enumerate every pair of items both ways round.
HashOrders == {<<"A", "B", "C">>, <<"C", "B", "A">>}

\* the user_id arguments
UserIds == {"user1", "new_user_xyz"}

\* the timestamp arguments, as their hour of day (no other part is read)
Hours == {0, 1}

\* the 'ensemble_weights' entries a module is constructed with
ModuleWeights ==
    { Some(DefaultWeights),                                               \* 0.4, 0.3, 0.3
      Some(PyList(<<Float(1000000), Float(1000000), Float(0)>>)),         \* 0.5, 0.5, 0.0
      Some(PyList(<<Float(1000000), Float(600000), Float(600000)>>)),     \* 0.5, 0.3, 0.3
      Some(PyList(<<Float(3000000), Float(-1000000), Float(0)>>)),        \* 1.5, -0.5, 0.0
      Some(PyList(<<Float(0), Float(1000000), Float(1000000)>>)),         \* 0.0, 0.5, 0.5
      Some(PyList(<<Float(1000000), Float(1000000)>>)),                   \* two weights
      None }                                                              \* no such key

\* the 'novelty_factor' entries: absent, -2.0, -1.0, 0.1
ModuleNovelty == {None, Some(-20), Some(-10), Some(1)}

\* the configurations handed to IntegrationModule(config): every weight
\* entry with the default novelty factor, every novelty factor with the
\* default weights, and negative weights with a negative factor
ModuleConfigs ==
    { [DefaultIntegration EXCEPT !.ensemble_weights = w] : w \in ModuleWeights }
    \cup { [DefaultIntegration EXCEPT !.novelty_factor = nf] : nf \in ModuleNovelty }
    \cup { [DefaultIntegration EXCEPT
              !.ensemble_weights = Some(PyList(<<Float(-1000000), Float(3000000), Float(0)>>)),
              !.novelty_factor = Some(-20)] }

----------------------------------------------------------------------------
(* State *)

VARIABLES
    config,                 \* IntegrationModule.config
    trained,                \* IntegrationModule.trained
    user_analytics_weight,  \* the three attributes set by train; None before
    context_engine_weight,
    integration_weight,
    user_predictions,       \* the arguments of the integrate calls
    context_predictions,
    hash_order,             \* the set iteration order of this process
    op,                     \* the last call: "none", "train", "integrate", "validate_config"
    outcome,                \* "none", "ok", or the exception the call raised
    user_scores,            \* the locals of the last integrate call
    context_scores,
    all_items,              \* all_items, as the sequence in which it is iterated
    combined_scores,        \* combined_scores after line 72
    final_scores,           \* combined_scores after line 81
    final_recommendations,  \* the list returned
    vconfig,                \* the argument of validate_config
    user_id,                \* the user_id and timestamp arguments of integrate
    timestamp,
    previous,               \* the arguments that the latest integrate call that
                            \* returned was made with, and what it returned
    calls,                  \* the integrate call of each thread: its position,
                            \* its arguments and what it returned
    frames,                 \* the local variables of the integrate calls in progress
    framework,              \* the ICABARFramework object, once constructed
    user_analytics,         \* ICABARFramework.user_analytics
    context_engine,         \* ICABARFramework.context_engine
    training_sets,          \* the frames the caller of ICABARFramework.train has
    num_recommendations,    \* the num_recommendations argument of the predict calls
    returned                \* what the latest call on the framework or on one of
                            \* its components returned

module == <<config, trained, user_analytics_weight, context_engine_weight, integration_weight>>

inputs ==
    <<user_predictions, context_predictions, hash_order, vconfig, user_id, timestamp,
      training_sets, num_recommendations>>

locals == <<user_scores, context_scores, all_items, combined_scores, final_scores,
            final_recommendations>>

others == <<calls, frames, framework, user_analytics, context_engine, returned>>

vars == <<module, inputs, op, outcome, locals, previous, others>>

\* the threads that call integrate
Threads == {1, 2}

\* a thread that is not in a call
IdleCall ==
    [pc |-> "idle", user_predictions |-> <<>>, context_predictions |-> <<>>,
     overlapped |-> FALSE, result |-> <<>>]

\* the local variables of integrate before line 62
EmptyFrame ==
    [user_scores |-> EmptyMap, context_scores |-> EmptyMap, all_items |-> <<>>,
     combined_scores |-> EmptyMap, final_scores |-> EmptyMap]

\* the users that occur in training data
DataUsers == {"user1", "user2"}

\* one interaction: who, which item, the hour of its timestamp, and whether
\* it has a rating.  The ratings there are have the same value.
Row(user, item, hour, is_rated) ==
    [user_id |-> user, item_id |-> item, hour |-> hour, rated |-> is_rated]

\* a training set, as far as the code looks at it: whether it has rows,
\* which columns it has, its rows and how many users they are of.  When the
\* frame has an 'hour' column, it holds the hour of the timestamp.
Data(has_timestamp, has_rating, has_hour, has_item_id, interactions) ==
    [empty |-> interactions = <<>>, timestamp |-> has_timestamp, rating |-> has_rating,
     hour |-> has_hour, item_id |-> has_item_id, rows |-> interactions,
     n_users |-> Cardinality({interactions[i].user_id : i \in 1..Len(interactions)})]

\* pd.DataFrame()
EmptyData ==
    [empty |-> TRUE, timestamp |-> FALSE, rating |-> FALSE, hour |-> FALSE,
     item_id |-> FALSE, rows |-> <<>>, n_users |-> 0]

\* main.py lines 38-40: self.user_analytics = None, self.context_engine = None
NoComponent == [exists |-> FALSE, trained |-> FALSE, data |-> EmptyData, features |-> FALSE]

\* no ICABARFramework has been constructed
NoFramework ==
    [exists |-> FALSE, config |-> get_default_config, trained |-> FALSE,
     components |-> FALSE]

\* the call returned None or raised
NoReturn == [is_list |-> FALSE, list |-> <<>>, requested |-> 0]

\* the call returned this list, num_recommendations being n
ReturnedList(l, n) == [is_list |-> TRUE, list |-> l, requested |-> n]

InitOthers ==
    /\ calls = [t \in Threads |-> IdleCall]
    /\ frames = [t \in Threads |-> EmptyFrame]
    /\ framework = NoFramework
    /\ user_analytics = NoComponent
    /\ context_engine = NoComponent
    /\ returned = NoReturn

NoLocals ==
    /\ user_scores' = EmptyMap
    /\ context_scores' = EmptyMap
    /\ all_items' = <<>>
    /\ combined_scores' = EmptyMap
    /\ final_scores' = EmptyMap
    /\ final_recommendations' = <<>>

\* IntegrationModule.__init__(config), before any call
InitModule(cfg) ==
    /\ config = cfg
    /\ trained = FALSE
    /\ user_analytics_weight = None
    /\ context_engine_weight = None
    /\ integration_weight = None

\* no integrate call has returned yet
NoPrevious ==
    [valid |-> FALSE, repeated |-> FALSE, recommendations |-> <<>>, scores |-> EmptyMap,
     w_user |-> 0, w_context |-> 0, novelty_factor |-> None]

InitCall ==
    /\ InitOthers
    /\ op = "none"
    /\ outcome = "none"
    /\ previous = NoPrevious
    /\ user_scores = EmptyMap
    /\ context_scores = EmptyMap
    /\ all_items = <<>>
    /\ combined_scores = EmptyMap
    /\ final_scores = EmptyMap
    /\ final_recommendations = <<>>

Init ==
    /\ \E cfg \in ModuleConfigs : InitModule(cfg)
    /\ user_predictions \in Lists
    /\ context_predictions \in Lists
    /\ hash_order \in HashOrders
    /\ vconfig = get_default_config
    /\ user_id = "user1"
    /\ timestamp = 0
    /\ training_sets = {}
    /\ num_recommendations = 10
    /\ InitCall

----------------------------------------------------------------------------
(* models/integration.py: IntegrationModule *)

\* defective variant: the first two weights change places
UnpackWeightsSwapped(w) == <<Some(w[2].v), Some(w[1].v), Some(w[3].v)>>

\* line 40: a, b, c = self.config['ensemble_weights']
UnpackWeights(w) == <<Some(w[1].v), Some(w[2].v), Some(w[3].v)>>

\* defective variant: the flag is set before the weights are unpacked
TrainFlagFirst ==
    /\ op' = "train"
    /\ NoLocals
    /\ trained' = TRUE
    /\ UNCHANGED <<config, inputs, previous, others>>
    /\ IF config.ensemble_weights = None \/ Len(config.ensemble_weights[1].elems) # 3
       THEN /\ outcome' = (IF config.ensemble_weights = None THEN "KeyError" ELSE "ValueError")
            /\ UNCHANGED <<user_analytics_weight, context_engine_weight, integration_weight>>
       ELSE /\ user_analytics_weight' = UnpackWeights(config.ensemble_weights[1].elems)[1]
            /\ context_engine_weight' = UnpackWeights(config.ensemble_weights[1].elems)[2]
            /\ integration_weight' = UnpackWeights(config.ensemble_weights[1].elems)[3]
            /\ outcome' = "ok"

\* train(user_analytics, context_engine).  Line 40 looks the key up
\* (KeyError), unpacks exactly three values (ValueError) and only then
\* assigns the three attributes; line 41 sets the flag.
Train ==
    /\ op' = "train"
    /\ NoLocals
    /\ UNCHANGED <<config, inputs, previous, others>>
    /\ IF config.ensemble_weights = None
       THEN /\ outcome' = "KeyError"
            /\ UNCHANGED <<trained, user_analytics_weight, context_engine_weight,
                           integration_weight>>
       ELSE LET w == config.ensemble_weights[1].elems
            IN  IF Len(w) # 3
                THEN /\ outcome' = "ValueError"
                     /\ UNCHANGED <<trained, user_analytics_weight, context_engine_weight,
                                    integration_weight>>
                ELSE /\ user_analytics_weight' = UnpackWeights(w)[1]
                     /\ context_engine_weight' = UnpackWeights(w)[2]
                     /\ integration_weight' = UnpackWeights(w)[3]
                     /\ trained' = TRUE
                     /\ outcome' = "ok"

\* defective variant: no gate
GateAlwaysOpen(is_trained) == FALSE

\* line 57: if not self.trained: raise RuntimeError
UntrainedGate(is_trained) == ~is_trained

\* lines 60-91 of integrate(user_predictions, context_predictions, user_id,
\* timestamp), the part after the gate: the locals of the call and the list
\* it returns.  user_id, timestamp and diversity_factor are never read after
\* they are bound.
IntegrateLocals(user_preds, context_preds, uid, ts, cfg, w_user, w_context, w_integration, order) ==
    LET us == RankScores(user_preds)
        cs == RankScores(context_preds)
        universe == Universe(user_preds, context_preds)
        combined == CombineScores(universe, us, cs, w_user, w_context, w_integration)
        diversity_factor == Get(cfg.diversity_factor, 0)
        novelty_factor == Get(cfg.novelty_factor, 0)
        adjusted == NoveltyAdjust(combined, novelty_factor, us)
        keys == Enumerate(universe, order)
        confidence_threshold == Get(cfg.confidence_threshold, 0)
    IN  [user_scores |-> us,
         context_scores |-> cs,
         all_items |-> keys,
         combined_scores |-> combined,
         final_scores |-> adjusted,
         final_recommendations |->
             Returned(SortedDesc(keys, adjusted), adjusted, confidence_threshold)]

\* defective variant: the call clears the third weight
WeightsClearedByIntegrate(w) == <<w[1], w[2], Some(0)>>

\* lines 57-91: integrate assigns no attribute of self
WeightsAfterIntegrate(w) == w

\* integrate(user_predictions, context_predictions, user_id, timestamp)
Integrate ==
    /\ op' = "integrate"
    /\ UNCHANGED <<config, trained, inputs, others>>
    /\ LET w == WeightsAfterIntegrate(<<user_analytics_weight, context_engine_weight,
                                        integration_weight>>)
       IN  /\ user_analytics_weight' = w[1]
           /\ context_engine_weight' = w[2]
           /\ integration_weight' = w[3]
    /\ IF UntrainedGate(trained)
       THEN /\ outcome' = "RuntimeError"
            /\ NoLocals
            /\ UNCHANGED previous
       ELSE IF user_analytics_weight = None \/ context_engine_weight = None
       THEN /\ outcome' = "AttributeError"
            /\ NoLocals
            /\ UNCHANGED previous
       ELSE \E l \in {IntegrateLocals(user_predictions, context_predictions, user_id,
                                      timestamp, config, user_analytics_weight[1],
                                      context_engine_weight[1], Get(integration_weight, 0),
                                      hash_order)} :
                /\ user_scores' = l.user_scores
                /\ context_scores' = l.context_scores
                /\ all_items' = l.all_items
                /\ combined_scores' = l.combined_scores
                /\ final_scores' = l.final_scores
                /\ final_recommendations' = l.final_recommendations
                /\ outcome' = "ok"
                /\ previous' = [valid |-> TRUE,
                                repeated |-> previous.valid,
                                recommendations |-> l.final_recommendations,
                                scores |-> l.final_scores,
                                w_user |-> user_analytics_weight[1],
                                w_context |-> context_engine_weight[1],
                                novelty_factor |-> config.novelty_factor]

Next == Train \/ Integrate

Spec == Init /\ [][Next]_vars

----------------------------------------------------------------------------
(* utils/config.py: validate_config as a call *)

\* the numbers an 'ensemble_weights' entry is made of:
\* 0.0, 0.3, 0.3000005, 0.3000015, 0.4, 0.5 and the ints 0 and 1
WeightElems ==
    { Float(0), Float(600000), Float(600001), Float(600003), Float(800000),
      Float(1000000), PyInt(0), PyInt(One) }

RECURSIVE WeightSeqs(_)
WeightSeqs(n) ==
    IF n = 0 THEN {<<>>}
    ELSE LET shorter == WeightSeqs(n - 1)
         IN  shorter \cup {Append(l, x) : l \in {m \in shorter : Len(m) = n - 1},
                                          x \in WeightElems}

\* lists and tuples of two to MaxWeightLen numbers
WeightEntries ==
    {PyList(l) : l \in {m \in WeightSeqs(MaxWeightLen) : Len(m) >= 2}}
    \cup {PyTuple(l) : l \in {m \in WeightSeqs(MaxWeightLen) : Len(m) = 3}}

\* the default configuration with another 'ensemble_weights' entry
WithWeights(w) ==
    [get_default_config EXCEPT
        !.integration = Some([DefaultIntegration EXCEPT !.ensemble_weights = w])]

\* the default configuration with another 'n_clusters' entry
WithClusters(c) ==
    [get_default_config EXCEPT !.user_analytics = Some([n_clusters |-> c])]

\* the 'n_clusters' entries: 0, -1, 1, 2, 5.0 and 0.0
ClusterEntries == {PyInt(0), PyInt(-1), PyInt(1), PyInt(2), Float(5), Float(0)}

ValidateConfigs ==
    {WithWeights(Some(w)) : w \in WeightEntries}
    \cup {WithClusters(Some(c)) : c \in ClusterEntries}
    \cup {[WithClusters(Some(c)) EXCEPT
              !.integration = Some([DefaultIntegration EXCEPT !.ensemble_weights = w])] :
          c \in ClusterEntries,
          w \in {None, Some(PyList(<<Float(1000000), Float(1000000), Float(1000000)>>))}}
    \cup {[WithClusters(Some(c)) EXCEPT !.context_engine = None] : c \in ClusterEntries}
    \cup { WithWeights(None),
           WithClusters(None),
           [get_default_config EXCEPT !.user_analytics = None],
           [get_default_config EXCEPT !.context_engine = None],
           [get_default_config EXCEPT !.integration = None] }

InitValidate ==
    /\ InitModule(DefaultIntegration)
    /\ user_predictions = <<>>
    /\ context_predictions = <<>>
    /\ hash_order = <<"A", "B", "C">>
    /\ vconfig \in ValidateConfigs
    /\ user_id = "user1"
    /\ timestamp = 0
    /\ training_sets = {}
    /\ num_recommendations = 10
    /\ InitCall

ValidateConfig ==
    /\ op' = "validate_config"
    /\ outcome' = validate_config(vconfig)
    /\ UNCHANGED <<module, inputs, locals, previous, others>>

NextValidate == ValidateConfig

SpecValidate == InitValidate /\ [][NextValidate]_vars

----------------------------------------------------------------------------
(* Properties *)

\* the last call was an integrate that returned a list
IntegrateOk == op = "integrate" /\ outcome = "ok"

\* the module's configuration, as the 'integration' section of an otherwise
\* default configuration, passes validate_config
Accepted ==
    validate_config([get_default_config EXCEPT !.integration = Some(config)]) = "ok"

Positions(list, item) == {i \in 1..Len(list) : list[i] = item}

FirstPosition(list, item) ==
    CHOOSE i \in Positions(list, item) : \A j \in Positions(list, item) : i <= j

NoDuplicates(list) == \A i, j \in 1..Len(list) : list[i] = list[j] => i = j

CandidateUniverse == Range(user_predictions) \cup Range(context_predictions)

\* 1 + novelty_factor, in novelty units
NoveltyScale == NoveltyOne + Get(config.novelty_factor, 0)

\* the score of an item in a list as the score map of the call holds it:
\* the reciprocal of a 1-based position of the item, 0 for an absent item
IsListScore(list, m, item, score) ==
    IF Positions(list, item) = {}
    THEN item \notin DOMAIN m /\ score = Zero
    ELSE item \in DOMAIN m /\ score = m[item]
         /\ \E i \in Positions(list, item) : score = Rat(1, i)

\* C1: for a trained module and every pair of input lists, integrate gives
\* each item of the union of the two lists the score
\* w_user * score_user(item) + w_context * score_context(item), a list's
\* score being the item's reciprocal-rank score in that list and 0 for an
\* absent item; w_integration does not enter.
C1_WeightedEnsembleFormula ==
    IntegrateOk =>
        /\ DOMAIN combined_scores = CandidateUniverse
        /\ \A item \in CandidateUniverse :
             \E su \in {Zero} \cup {Rat(1, i) : i \in 1..Len(user_predictions)},
                sc \in {Zero} \cup {Rat(1, i) : i \in 1..Len(context_predictions)} :
                /\ IsListScore(user_predictions, user_scores, item, su)
                /\ IsListScore(context_predictions, context_scores, item, sc)
                /\ combined_scores[item].n * (su.d * sc.d)
                     = (user_analytics_weight[1] * su.n * sc.d
                          + context_engine_weight[1] * sc.n * su.d)
                       * combined_scores[item].d

\* an item in both lists, at different ranks, with a non-zero third weight
C1_Witness ==
    /\ IntegrateOk
    /\ integration_weight # Some(0)
    /\ \E item \in Items :
          /\ Positions(user_predictions, item) = {1}
          /\ Positions(context_predictions, item) = {3}
    /\ \E item \in CandidateUniverse : item \notin Range(user_predictions)

\* C2: an item that occurs more than once in an input list is scored by the
\* rank of its first occurrence: its score is 1 / (1 + first_rank).
C2_FirstOccurrenceWins ==
    IntegrateOk =>
        /\ \A item \in Range(user_predictions) :
              user_scores[item] = Rat(1, FirstPosition(user_predictions, item))
        /\ \A item \in Range(context_predictions) :
              context_scores[item] = Rat(1, FirstPosition(context_predictions, item))

\* C3: the list returned by integrate is a permutation of the candidate
\* universe: every item of either input occurs in it exactly once, nothing
\* else occurs, and nothing is dropped for a low score.
C3_OutputIsPermutationOfUniverse ==
    IntegrateOk =>
        /\ Range(final_recommendations) = CandidateUniverse
        /\ Len(final_recommendations) = Cardinality(CandidateUniverse)

\* a returned item whose score is below the configured confidence threshold
C3_Witness ==
    /\ IntegrateOk
    /\ config.confidence_threshold = Some(6)
    /\ Len(final_recommendations) = 3
    /\ \E item \in Range(final_recommendations) :
          RatLess(final_scores[item], Rat(6 * One, 10))
    /\ ~NoDuplicates(user_predictions)

\* C4: the list returned by integrate is in descending order of the scores
\* that combined_scores holds when the list is sorted.
C4_OutputSortedDescending ==
    IntegrateOk =>
        \A i, j \in 1..Len(final_recommendations) :
            i < j => ~RatLess(final_scores[final_recommendations[i]],
                              final_scores[final_recommendations[j]])

\* three items of three different scores that the set did not enumerate in
\* the order of their scores
C4_Witness ==
    /\ IntegrateOk
    /\ Len(final_recommendations) = 3
    /\ final_recommendations # all_items
    /\ \A i \in 1..2 : RatLess(final_scores[final_recommendations[i + 1]],
                               final_scores[final_recommendations[i]])

\* C5: integrate on a module whose train has never completed raises
\* RuntimeError, returns no list and leaves the module's state unchanged.
C5_UntrainedIntegrateFails ==
    [][(op' = "integrate" /\ ~trained) =>
          /\ outcome' = "RuntimeError"
          /\ final_recommendations' = <<>>
          /\ UNCHANGED module]_vars

\* a failed integrate after a train that raised, with non-empty inputs
C5_Witness ==
    /\ op = "integrate"
    /\ outcome = "RuntimeError"
    /\ ~trained
    /\ config.ensemble_weights # None
    /\ user_predictions # <<>>
    /\ context_predictions # <<>>

\* the last call was validate_config on a configuration whose sections and
\* n_clusters are in order and that has an 'ensemble_weights' entry
ValidatedWeights ==
    /\ op = "validate_config"
    /\ vconfig.user_analytics = Some(DefaultUserAnalytics)
    /\ vconfig.context_engine # None
    /\ vconfig.integration # None
    /\ vconfig.integration[1].ensemble_weights # None

VWeights == vconfig.integration[1].ensemble_weights[1]

\* C6 as stated: validate_config accepts a weight list exactly when it holds
\* three numbers whose sum is within 1e-6 of 1.0.
C6_AcceptsThreeNumbersSummingToOne ==
    (ValidatedWeights /\ VWeights.is_list) =>
        (outcome = "ok" <=>
            /\ Len(VWeights.elems) = 3
            /\ Abs(SumV(VWeights.elems) - One) <= Tol)

\* C6, amended: validate_config accepts the weights exactly when they are a
\* list of exactly three floats whose sum is within 1e-6 of 1.0; a list
\* of another length fails with the shape error, [0.4, 0.3, 0.3] passes and
\* [0.5, 0.3, 0.3] fails with the sum error.
C6_AcceptsListOfThreeFloatsSummingToOne ==
    ValidatedWeights =>
        /\ outcome = "ok" <=>
              /\ VWeights.is_list
              /\ Len(VWeights.elems) = 3
              /\ \A i \in 1..3 : VWeights.elems[i].float
              /\ Abs(SumV(VWeights.elems) - One) <= Tol
        /\ Len(VWeights.elems) # 3 => outcome = "ValueError_shape"
        /\ VWeights = DefaultWeights => outcome = "ok"
        /\ VWeights = PyList(<<Float(1000000), Float(600000), Float(600000)>>)
              => outcome = "ValueError_sum"

\* three floats accepted although their sum is not exactly 1.0
C6_Witness ==
    /\ ValidatedWeights
    /\ outcome = "ok"
    /\ SumV(VWeights.elems) # One

\* C7: whenever the module is trained, the three weights it holds satisfy
\* the sum constraint of the validation.
C7_TrainedWeightsSumToOne ==
    trained =>
        Abs(user_analytics_weight[1] + context_engine_weight[1] + integration_weight[1] - One)
            <= Tol

\* C8: under a configuration that validate_config accepts, every combined
\* score of an integrate call is non-negative, before and after the novelty
\* adjustment.
C8_ScoresNonNegative ==
    (IntegrateOk /\ Accepted) =>
        \A item \in CandidateUniverse :
            /\ RatNonNeg(combined_scores[item])
            /\ RatNonNeg(final_scores[item])

\* the order of C9: the unadjusted scores, sorted
UnadjustedOrder == SortedDesc(all_items, combined_scores)

\* C9 as stated: under every accepted configuration the list returned is the
\* list that sorting the unadjusted combined scores gives.
C9_NoveltyKeepsOrder ==
    (IntegrateOk /\ Accepted) => final_recommendations = UnadjustedOrder

\* C9, amended: the same, for the novelty factors above -1, where
\* 1 + novelty_factor is positive.
C9_PositiveNoveltyKeepsOrder ==
    (IntegrateOk /\ Accepted /\ NoveltyScale > 0) => final_recommendations = UnadjustedOrder

\* a rescaling by 1.1 of three scores, two of them equal, that the set did
\* not enumerate in the order returned
C9_Witness ==
    /\ IntegrateOk
    /\ Accepted
    /\ config.novelty_factor = Some(1)
    /\ Len(final_recommendations) = 3
    /\ final_recommendations # all_items
    /\ \E x, y \in CandidateUniverse : x # y /\ RatEq(combined_scores[x], combined_scores[y])
    /\ \A x \in CandidateUniverse : combined_scores[x] # Zero /\ final_scores[x] # combined_scores[x]

\* the case of C10: a non-empty list without duplicates and an empty one
UserListOnly ==
    /\ IntegrateOk
    /\ user_predictions # <<>>
    /\ NoDuplicates(user_predictions)
    /\ context_predictions = <<>>

\* C10 as stated: for every trained module, integrate returns the user list.
C10_UserListReturned == UserListOnly => final_recommendations = user_predictions

\* C10, amended: integrate returns the user list when
\* w_user * (1 + novelty_factor) is positive.
C10_UserListReturnedPositiveScale ==
    (UserListOnly /\ user_analytics_weight[1] * NoveltyScale > 0)
        => final_recommendations = user_predictions

\* a list of three that the set enumerated in another order, with both
\* w_user and 1 + novelty_factor negative
C10_Witness ==
    /\ UserListOnly
    /\ user_analytics_weight[1] < 0
    /\ NoveltyScale < 0
    /\ Len(user_predictions) = 3
    /\ all_items # user_predictions

\* the 1-based position of an item in a list that holds it
Position(list, item) == CHOOSE i \in 1..Len(list) : list[i] = item

\* the case of C11: two non-empty lists of equal length without a common item
DisjointEqualLength ==
    /\ IntegrateOk
    /\ user_predictions # <<>>
    /\ Len(user_predictions) = Len(context_predictions)
    /\ Range(user_predictions) \cap Range(context_predictions) = {}

\* C11: for non-empty, mutually disjoint input lists of equal length, the
\* first item of user_predictions has the combined score w_user * 1.0 before
\* the novelty scaling and is returned ahead of every item whose combined
\* score is lower.
C11_FirstUserItemLeads ==
    DisjointEqualLength =>
        LET top == user_predictions[1]
        IN  /\ RatEq(combined_scores[top], Rat(user_analytics_weight[1], 1))
            /\ \A x \in CandidateUniverse :
                  RatLess(combined_scores[x], combined_scores[top])
                      => Position(final_recommendations, top)
                           < Position(final_recommendations, x)

\* the calls that differ from the call made in one of user_id, timestamp,
\* w_integration, diversity_factor and confidence_threshold, or in all
OtherCalls ==
    LET same == [uid |-> user_id, ts |-> timestamp, wi |-> Get(integration_weight, 0),
                 df |-> config.diversity_factor, ct |-> config.confidence_threshold]
    IN  { [same EXCEPT !.uid = CHOOSE u \in UserIds : u # user_id],
          [same EXCEPT !.ts = CHOOSE h \in Hours : h # timestamp],
          [same EXCEPT !.wi = same.wi + One],
          [same EXCEPT !.df = IF same.df = None THEN Some(5) ELSE None],
          [same EXCEPT !.ct = IF same.ct = None THEN Some(3) ELSE None],
          [uid |-> CHOOSE u \in UserIds : u # user_id,
           ts |-> CHOOSE h \in Hours : h # timestamp,
           wi |-> same.wi - One, df |-> Some(0), ct |-> Some(10)] }

\* C13: a call that differs only in user_id, timestamp, w_integration,
\* diversity_factor or confidence_threshold computes the same combined
\* scores and, whatever the set iteration order, puts any two items of
\* different score in the same order.
C13_UnusedParametersDoNotMatter ==
    IntegrateOk =>
        \A other \in OtherCalls, order \in HashOrders :
            LET l == IntegrateLocals(user_predictions, context_predictions,
                                     other.uid, other.ts,
                                     [config EXCEPT !.diversity_factor = other.df,
                                                    !.confidence_threshold = other.ct],
                                     user_analytics_weight[1], context_engine_weight[1],
                                     other.wi, order)
            IN  /\ l.combined_scores = combined_scores
                /\ l.final_scores = final_scores
                /\ Range(l.final_recommendations) = Range(final_recommendations)
                /\ Len(l.final_recommendations) = Len(final_recommendations)
                /\ \A x, y \in Range(final_recommendations) :
                      RatLess(final_scores[y], final_scores[x])
                          => Position(l.final_recommendations, x)
                               < Position(l.final_recommendations, y)

\* three items of different scores, one below the confidence threshold,
\* returned by a module whose third weight is not 0
C13_Witness ==
    /\ IntegrateOk
    /\ Len(final_recommendations) = 3
    /\ integration_weight # Some(0)
    /\ config.confidence_threshold = Some(6)
    /\ \A i \in 1..2 : RatLess(final_scores[final_recommendations[i + 1]],
                               final_scores[final_recommendations[i]])
    /\ RatLess(final_scores[final_recommendations[3]], Rat(6 * One, 10))

----------------------------------------------------------------------------
(* IntegrationModule with a configuration that its owner changes *)

\* the input lists without a repeated item
DistinctLists == {l \in Lists : NoDuplicates(l)}

\* the configurations the owner of the dict switches between: the default,
\* novelty_factor -2.0, no confidence_threshold, weights 0.5/0.5/0.0, a
\* list of two weights and no 'ensemble_weights' key
ReConfigs ==
    { DefaultIntegration,
      [DefaultIntegration EXCEPT !.novelty_factor = Some(-20)],
      [DefaultIntegration EXCEPT !.confidence_threshold = None],
      [DefaultIntegration EXCEPT
          !.ensemble_weights = Some(PyList(<<Float(1000000), Float(1000000), Float(0)>>))],
      [DefaultIntegration EXCEPT
          !.ensemble_weights = Some(PyList(<<Float(1000000), Float(1000000)>>))],
      [DefaultIntegration EXCEPT !.ensemble_weights = None] }

\* line 29 keeps a reference to the caller's dict (self.config = config), so
\* an assignment to one of its keys by the caller is seen by the module
SetConfig ==
    /\ \E cfg \in ReConfigs : cfg # config /\ config' = cfg
    /\ op' = "set_config"
    /\ outcome' = "ok"
    /\ UNCHANGED <<trained, user_analytics_weight, context_engine_weight, integration_weight,
                   inputs, locals, previous, others>>

InitReconfig ==
    /\ \E cfg \in ReConfigs : InitModule(cfg)
    /\ user_predictions \in DistinctLists
    /\ context_predictions \in DistinctLists
    /\ hash_order \in HashOrders
    /\ vconfig = get_default_config
    /\ user_id = "user1"
    /\ timestamp = 0
    /\ training_sets = {}
    /\ num_recommendations = 10
    /\ InitCall

NextReconfig == Train \/ Integrate \/ SetConfig

SpecReconfig == InitReconfig /\ [][NextReconfig]_vars

\* the call being made is an integrate that returns, an earlier call has
\* returned, and the weights are those of the earlier call
SecondCallSameWeights ==
    /\ op' = "integrate"
    /\ outcome' = "ok"
    /\ previous.valid
    /\ previous.w_user = user_analytics_weight[1]
    /\ previous.w_context = context_engine_weight[1]

\* the list returned by the call being made holds the items of the list
\* returned before, any two items of different score in the same order
AgreesWithPrevious ==
    /\ Range(final_recommendations') = Range(previous.recommendations)
    /\ \A x, y \in Range(final_recommendations') :
          RatLess(final_scores'[y], final_scores'[x])
              => Position(previous.recommendations, x) < Position(previous.recommendations, y)

\* C12 as stated: two integrate calls on a trained module with the same
\* input lists and unchanged weights return lists that agree on the order of
\* every two items whose combined scores differ.
C12_Repeatable == [][SecondCallSameWeights => AgreesWithPrevious]_vars

\* C12, amended: the same, when novelty_factor is unchanged as well.
C12_RepeatableSameNovelty ==
    [][(SecondCallSameWeights /\ previous.novelty_factor = config.novelty_factor)
          => AgreesWithPrevious]_vars

\* a second call that returned three items of different scores with the
\* weights and the novelty factor of the first
C12_Witness ==
    /\ IntegrateOk
    /\ previous.repeated
    /\ Len(final_recommendations) = 3
    /\ \A i \in 1..2 : RatLess(final_scores[final_recommendations[i + 1]],
                               final_scores[final_recommendations[i]])

\* the configuration has an 'ensemble_weights' entry of three values
HasThreeWeights ==
    /\ config.ensemble_weights # None
    /\ Len(config.ensemble_weights[1].elems) = 3

\* C14: train loads the three weights of the configuration and sets the
\* trained flag; a train call right after a successful one changes nothing
\* when the configuration is unchanged, and a train call after a change of
\* the configuration replaces the weights by the current ones; after train,
\* user_analytics_weight is ensemble_weights[0].
C14_TrainLoadsWeights ==
    [][op' = "train" =>
          /\ HasThreeWeights =>
                /\ outcome' = "ok"
                /\ trained'
                /\ config' = config
                /\ user_analytics_weight' = Some(config.ensemble_weights[1].elems[1].v)
                /\ context_engine_weight' = Some(config.ensemble_weights[1].elems[2].v)
                /\ integration_weight' = Some(config.ensemble_weights[1].elems[3].v)
          /\ (op = "train" /\ outcome = "ok") => UNCHANGED module]_vars

\* a train that replaced the weights an earlier integrate call had used
C14_Witness ==
    /\ op = "train"
    /\ outcome = "ok"
    /\ previous.valid
    /\ previous.w_user # user_analytics_weight[1]
    /\ user_analytics_weight[1] # context_engine_weight[1]

\* C15: no integrate call, returning or raising, changes the three weights,
\* the trained flag, the configuration or the two lists passed to it.
C15_IntegrateChangesNothing ==
    [][op' = "integrate" =>
          UNCHANGED <<config, trained, user_analytics_weight, context_engine_weight,
                      integration_weight, user_predictions, context_predictions>>]_vars

\* a second integrate call on a trained module that returned two items
C15_Witness ==
    /\ IntegrateOk
    /\ trained
    /\ previous.repeated
    /\ Len(final_recommendations) >= 2

----------------------------------------------------------------------------
(* IntegrationModule.integrate called from two threads *)

\* the configurations of the module the threads share
SharedConfigs ==
    { DefaultIntegration, [DefaultIntegration EXCEPT !.novelty_factor = Some(-20)] }

\* defective variant: the calls keep their intermediate values in one place
SharedFrame(t) == 1

\* lines 62-84: user_scores, context_scores, all_items, combined_scores and
\* final_recommendations are local names, so each call has its own
FrameOf(t) == t

\* a call between its first and its last step
InCall(t) == calls[t].pc \notin {"idle", "done", "raised"}

\* thread t takes a step to position pc: every call in progress at that
\* moment, its own included, has then overlapped with another
Advance(t, pc) ==
    [u \in Threads |->
        LET c == IF u = t THEN [calls[u] EXCEPT !.pc = pc] ELSE calls[u]
        IN  IF \E v \in Threads \ {t} : InCall(v)
            THEN [c EXCEPT !.overlapped = c.overlapped \/ u = t \/ InCall(u)]
            ELSE c]

\* thread 1 passes the two lists as they are, thread 2 passes them exchanged
ArgsOf(t) ==
    IF t = 1 THEN <<user_predictions, context_predictions>>
             ELSE <<context_predictions, user_predictions>>

\* line 44: the call binds its arguments
Call(t) ==
    /\ calls[t].pc = "idle"
    /\ calls' = [calls EXCEPT ![t] = [pc |-> "gate", user_predictions |-> ArgsOf(t)[1],
                                      context_predictions |-> ArgsOf(t)[2],
                                      overlapped |-> FALSE, result |-> <<>>]]
    /\ frames' = [frames EXCEPT ![FrameOf(t)] = EmptyFrame]
    /\ UNCHANGED <<module, inputs, op, outcome, locals, previous, framework,
                   user_analytics, context_engine, returned>>

\* lines 57-58
CallGate(t) ==
    /\ calls[t].pc = "gate"
    /\ calls' = Advance(t, IF UntrainedGate(trained) THEN "raised" ELSE "rank")
    /\ UNCHANGED <<module, inputs, op, outcome, locals, previous, frames, framework,
                   user_analytics, context_engine, returned>>

\* lines 62-63
CallRank(t) ==
    /\ calls[t].pc = "rank"
    /\ frames' = [frames EXCEPT ![FrameOf(t)].user_scores = RankScores(calls[t].user_predictions),
                                ![FrameOf(t)].context_scores =
                                    RankScores(calls[t].context_predictions)]
    /\ calls' = Advance(t, "combine")
    /\ UNCHANGED <<module, inputs, op, outcome, locals, previous, framework,
                   user_analytics, context_engine, returned>>

\* lines 67-72
CallCombine(t) ==
    /\ calls[t].pc = "combine"
    /\ IF user_analytics_weight = None \/ context_engine_weight = None
       THEN /\ calls' = Advance(t, "raised")
            /\ UNCHANGED frames
       ELSE LET f == frames[FrameOf(t)]
                universe == Universe(calls[t].user_predictions, calls[t].context_predictions)
            IN  /\ frames' = [frames EXCEPT
                       ![FrameOf(t)].all_items = Enumerate(universe, hash_order),
                       ![FrameOf(t)].combined_scores =
                           CombineScores(universe, f.user_scores, f.context_scores,
                                         user_analytics_weight[1], context_engine_weight[1],
                                         Get(integration_weight, 0))]
                /\ calls' = Advance(t, "novelty")
    /\ UNCHANGED <<module, inputs, op, outcome, locals, previous, framework,
                   user_analytics, context_engine, returned>>

\* lines 76-81
CallNovelty(t) ==
    /\ calls[t].pc = "novelty"
    /\ LET f == frames[FrameOf(t)]
       IN  frames' = [frames EXCEPT ![FrameOf(t)].final_scores =
                         NoveltyAdjust(f.combined_scores, Get(config.novelty_factor, 0),
                                       f.user_scores)]
    /\ calls' = Advance(t, "sort")
    /\ UNCHANGED <<module, inputs, op, outcome, locals, previous, framework,
                   user_analytics, context_engine, returned>>

\* lines 84-91
CallSort(t) ==
    /\ calls[t].pc = "sort"
    /\ LET f == frames[FrameOf(t)]
           r == Returned(SortedDesc(f.all_items, f.final_scores), f.final_scores,
                         Get(config.confidence_threshold, 0))
       IN  calls' = [Advance(t, "done") EXCEPT ![t].result = r]
    /\ UNCHANGED <<module, inputs, op, outcome, locals, previous, frames, framework,
                   user_analytics, context_engine, returned>>

\* the caller has taken the list or the exception; the thread may call again
CallOver(t) ==
    /\ calls[t].pc \in {"done", "raised"}
    /\ calls' = [calls EXCEPT ![t] = IdleCall]
    /\ UNCHANGED <<module, inputs, op, outcome, locals, previous, frames, framework,
                   user_analytics, context_engine, returned>>

\* train while no integrate call is in progress
TrainQuiescent ==
    /\ \A t \in Threads : calls[t].pc = "idle"
    /\ Train

InitConcurrent ==
    /\ \E cfg \in SharedConfigs : InitModule(cfg)
    /\ user_predictions \in DistinctLists
    /\ context_predictions \in DistinctLists
    /\ hash_order \in HashOrders
    /\ vconfig = get_default_config
    /\ user_id = "user1"
    /\ timestamp = 0
    /\ training_sets = {}
    /\ num_recommendations = 10
    /\ InitCall

NextConcurrent ==
    \/ TrainQuiescent
    \/ \E t \in Threads :
          \/ Call(t)
          \/ CallGate(t)
          \/ CallRank(t)
          \/ CallCombine(t)
          \/ CallNovelty(t)
          \/ CallSort(t)
          \/ CallOver(t)

SpecConcurrent == InitConcurrent /\ [][NextConcurrent]_vars

\* what the call of thread t returns when no other call is made
Alone(t) ==
    IntegrateLocals(calls[t].user_predictions, calls[t].context_predictions, user_id,
                    timestamp, config, user_analytics_weight[1], context_engine_weight[1],
                    Get(integration_weight, 0), hash_order).final_recommendations

\* C16: an integrate call on a trained module that runs interleaved with
\* other integrate calls, no train call running meanwhile, returns the list
\* it returns when it runs alone.
C16_InterleavedCallsReturnAsAlone ==
    \A t \in Threads : calls[t].pc = "done" => calls[t].result = Alone(t)

\* both calls have returned, each overlapped with the other, with different
\* lists of two items or more
C16_Witness ==
    /\ \A t \in Threads : calls[t].pc = "done" /\ calls[t].overlapped
    /\ Len(calls[1].result) >= 2
    /\ calls[1].result # calls[2].result

----------------------------------------------------------------------------
(* main.py: ICABARFramework with its three components *)

\* an 'integration' section that has only the key 'ensemble_weights'
OnlyWeights(w) ==
    [ensemble_weights |-> w, confidence_threshold |-> None, diversity_factor |-> None,
     novelty_factor |-> None]

\* a caller's dict with the given sections; None stands for an absent key
Sections(ua, ce, integ) == [user_analytics |-> ua, context_engine |-> ce, integration |-> integ]

\* the config arguments of ICABARFramework(config=...): none, {}, and dicts
\* with one section: weights 0.5/0.5/0.0, weights 0.5/0.5/0.5, the int
\* weights 1/0/0, an 'integration' without 'ensemble_weights', n_clusters 2,
\* n_clusters 0 and a 'user_analytics' without 'n_clusters'
CallerConfigs ==
    { None,
      Some(Sections(None, None, None)),
      Some(Sections(None, None,
                    Some(OnlyWeights(Some(PyList(<<Float(1000000), Float(1000000), Float(0)>>)))))),
      Some(Sections(None, None,
                    Some(OnlyWeights(Some(PyList(<<Float(1000000), Float(1000000),
                                                   Float(1000000)>>)))))),
      Some(Sections(None, None,
                    Some(OnlyWeights(Some(PyList(<<PyInt(One), PyInt(0), PyInt(0)>>)))))),
      Some(Sections(None, None, Some(OnlyWeights(None)))),
      Some(Sections(Some([n_clusters |-> Some(PyInt(2))]), None, None)),
      Some(Sections(Some([n_clusters |-> Some(PyInt(0))]), None, None)),
      Some(Sections(Some([n_clusters |-> None]), None, None)) }

\* lines 31-35: base_config.update(config) replaces whole sections; a falsy
\* config (None or {}) leaves the defaults
MergedConfig(caller) ==
    IF caller = None THEN get_default_config
    ELSE LET c == caller[1]
             base == get_default_config
         IN  [user_analytics |-> IF c.user_analytics # None THEN c.user_analytics
                                 ELSE base.user_analytics,
              context_engine |-> IF c.context_engine # None THEN c.context_engine
                                 ELSE base.context_engine,
              integration |-> IF c.integration # None THEN c.integration
                              ELSE base.integration]

\* the exception of validate_config, as the caller's except clause sees it
ExceptionType(result) ==
    IF result \in {"ValueError_keys", "ValueError_n_clusters", "ValueError_shape",
                   "ValueError_sum"}
    THEN "ValueError"
    ELSE result

\* a new framework has no integration module, and a new integration module
\* has not been called
NoCalls ==
    /\ NoLocals
    /\ previous' = NoPrevious
    /\ user_predictions' = <<>>
    /\ context_predictions' = <<>>

\* ICABARFramework(config): lines 23-41.  When validate_config raises, the
\* constructor raises and the caller has no new object.
Construct ==
    /\ op' = "construct"
    /\ \E caller \in CallerConfigs :
          LET merged == MergedConfig(caller)
              result == validate_config(merged)
          IN  /\ outcome' = ExceptionType(result)
              /\ IF result = "ok"
                 THEN /\ framework' = [exists |-> TRUE, config |-> merged, trained |-> FALSE,
                                       components |-> FALSE]
                      /\ user_analytics' = NoComponent
                      /\ context_engine' = NoComponent
                      /\ config' = DefaultIntegration
                      /\ trained' = FALSE
                      /\ user_analytics_weight' = None
                      /\ context_engine_weight' = None
                      /\ integration_weight' = None
                      /\ NoCalls
                 ELSE UNCHANGED <<framework, user_analytics, context_engine, module, locals,
                                  previous, user_predictions, context_predictions>>
    /\ returned' = NoReturn
    /\ UNCHANGED <<hash_order, vconfig, user_id, timestamp, training_sets, num_recommendations,
                   calls, frames>>

\* three interactions of two users, and two interactions of one user
TwoUsers ==
    <<Row("user1", "B", 0, TRUE), Row("user2", "A", 1, TRUE), Row("user1", "A", 0, TRUE)>>

OneUser == <<Row("user2", "C", 1, TRUE), Row("user2", "A", 1, TRUE)>>

\* the training sets: None, an empty frame, complete frames of one and of
\* two users, one with an 'hour' column, and frames that lack 'timestamp',
\* 'rating', 'item_id', or 'item_id' while having 'hour'
TrainingData ==
    { None, Some(EmptyData),
      Some(Data(TRUE, TRUE, FALSE, TRUE, TwoUsers)),
      Some(Data(TRUE, TRUE, FALSE, TRUE, OneUser)),
      Some(Data(TRUE, TRUE, TRUE, TRUE, TwoUsers)),
      Some(Data(FALSE, TRUE, FALSE, TRUE, TwoUsers)),
      Some(Data(TRUE, FALSE, FALSE, TRUE, TwoUsers)),
      Some(Data(TRUE, TRUE, FALSE, FALSE, TwoUsers)),
      Some(Data(TRUE, TRUE, TRUE, FALSE, TwoUsers)) }

\* user_behaviour.py lines 45-54: the exception UserBehaviourAnalytics.train
\* raises on this data, or "ok".  preprocess_data raises ValueError for a
\* missing 'timestamp' (line 61); the other columns are indexed directly.
UBATrainOutcome(data) ==
    IF ~data.timestamp THEN "ValueError"
    ELSE IF ~data.rating THEN "KeyError"
    ELSE "ok"

\* user_behaviour.py lines 114-116: segment_users lowers config['n_clusters']
\* to the number of users
ClustersAfterTrain(n_clusters, data) ==
    IF data.n_users < n_clusters[1].v THEN Some(PyInt(data.n_users)) ELSE n_clusters

\* context_aware.py lines 36-54: extract_contextual_features groups by 'hour'
\* and selects 'item_id' when the frame has an 'hour' column
CETrainOutcome(data) == IF data.hour /\ ~data.item_id THEN "KeyError" ELSE "ok"

\* integration.py line 40, on the 'integration' section
IMTrainOutcome(cfg) ==
    IF cfg.ensemble_weights = None THEN "KeyError"
    ELSE IF Len(cfg.ensemble_weights[1].elems) # 3 THEN "ValueError"
    ELSE "ok"

\* ICABARFramework.train(training_data): lines 53-71
FrameworkTrain ==
    /\ framework.exists
    /\ op' = "framework_train"
    /\ returned' = NoReturn
    /\ UNCHANGED <<hash_order, vconfig, user_id, timestamp, training_sets, num_recommendations,
                   calls, frames>>
    /\ \E training_data \in training_sets :
          IF training_data = None \/ training_data[1].empty
          THEN /\ outcome' = "ValueError"
               /\ UNCHANGED <<module, framework, user_analytics, context_engine, locals,
                              previous, user_predictions, context_predictions>>
          ELSE LET data == training_data[1]
                   cfg == framework.config.integration[1]
                   fresh == [exists |-> TRUE, trained |-> FALSE, data |-> data,
                             features |-> FALSE]
                   ua_ok == UBATrainOutcome(data) = "ok"
                   ce_ok == ua_ok /\ CETrainOutcome(data) = "ok"
                   im_ok == ce_ok /\ IMTrainOutcome(cfg) = "ok"
                   n_clusters == framework.config.user_analytics[1].n_clusters
               IN  /\ NoCalls
                   /\ outcome' = IF ~ua_ok THEN UBATrainOutcome(data)
                                  ELSE IF ~ce_ok THEN CETrainOutcome(data)
                                  ELSE IMTrainOutcome(cfg)
                   /\ user_analytics' = [fresh EXCEPT !.trained = ua_ok]
                   /\ context_engine' = [fresh EXCEPT !.trained = ce_ok,
                                                      !.features = ce_ok /\ data.hour]
                   /\ config' = cfg
                   /\ trained' = im_ok
                   /\ user_analytics_weight' =
                         IF im_ok THEN UnpackWeights(cfg.ensemble_weights[1].elems)[1] ELSE None
                   /\ context_engine_weight' =
                         IF im_ok THEN UnpackWeights(cfg.ensemble_weights[1].elems)[2] ELSE None
                   /\ integration_weight' =
                         IF im_ok THEN UnpackWeights(cfg.ensemble_weights[1].elems)[3] ELSE None
                   /\ framework' =
                         [framework EXCEPT
                             !.components = TRUE,
                             !.trained = framework.trained \/ im_ok,
                             !.config.user_analytics =
                                 IF ua_ok
                                 THEN Some([n_clusters |-> ClustersAfterTrain(n_clusters, data)])
                                 ELSE framework.config.user_analytics]

\* defective variant: predictions are served without training
ComponentGateOpen(is_trained) == FALSE

\* main.py line 89, user_behaviour.py line 135, context_aware.py line 69:
\* if not self.trained: raise RuntimeError(...)
ComponentGate(is_trained) == ~is_trained

\* the values of num_recommendations
NumRecommendations == {1, 2, 10}

\* defective variant: nothing is cut
TakeAll(list, n) == list

\* list[:n]
Take(list, n) == SubSeq(list, 1, IF n < Len(list) THEN n ELSE Len(list))

\* UserBehaviourAnalytics.predict(user_id, num_recommendations), lines
\* 124-146: the exception raised, or "ok"; both branches select 'item_id'
UBAPredictOutcome(component) ==
    IF ComponentGate(component.trained) THEN "RuntimeError"
    ELSE IF ~component.data.item_id THEN "KeyError"
    ELSE "ok"

\* ContextAwareSuggestionEngine.predict(user_id, timestamp, ...), lines 56-82
CEPredictOutcome(component) ==
    IF ComponentGate(component.trained) THEN "RuntimeError"
    ELSE IF ~component.features /\ ~component.data.item_id THEN "KeyError"
    ELSE "ok"

\* the 'item_id' column of the rows that satisfy keep
ItemColumn(rows, keep(_)) ==
    LET kept == SelectSeq(rows, keep)
    IN  [i \in 1..Len(kept) |-> kept[i].item_id]

\* Series.unique(): the values in the order of their first appearance
RECURSIVE Unique(_)
Unique(column) ==
    IF column = <<>> THEN <<>>
    ELSE LET front == Unique(SubSeq(column, 1, Len(column) - 1))
             last == column[Len(column)]
         IN  IF last \in Range(front) THEN front ELSE Append(front, last)

\* the number of rows that hold this value
CountOf(column, value) == Cardinality({i \in 1..Len(column) : column[i] = value})

\* the position of key in keys
IndexOf(keys, key) == CHOOSE i \in 1..Len(keys) : keys[i] = key

\* nlargest / value_counts: the keys by descending count, keys of equal
\* count in the order they have in keys (keep='first'; the sort of
\* value_counts keeps the order of equal counts on frames this short)
LargestFirst(keys, column) ==
    LET before(j, k) == \/ CountOf(column, j) > CountOf(column, k)
                        \/ /\ CountOf(column, j) = CountOf(column, k)
                           /\ IndexOf(keys, j) < IndexOf(keys, k)
        rank(k) == 1 + Cardinality({j \in Range(keys) : before(j, k)})
    IN  [p \in 1..Len(keys) |-> CHOOSE k \in Range(keys) : rank(k) = p]

\* the item identifiers in ascending order, as groupby('item_id') sorts its keys
ItemOrder == <<"A", "B", "C">>

\* user_behaviour.py line 145: groupby('item_id')['rating'].count()
\*     .nlargest(num_recommendations).index; count() leaves out the rows
\* whose rating is missing
PopularByKey(rows, n) ==
    LET keys == SelectSeq(ItemOrder, LAMBDA x : x \in Range(ItemColumn(rows, LAMBDA r : TRUE)))
    IN  Take(LargestFirst(keys, ItemColumn(rows, LAMBDA r : r.rated)), n)

\* context_aware.py lines 78 and 82: value_counts().nlargest(n).index.tolist()
PopularByAppearance(column, n) == Take(LargestFirst(Unique(column), column), n)

\* defective variant: a known user gets the item of every row, without unique()
UBAPredictionOfEveryRow(data, uid, n) ==
    IF \E i \in 1..Len(data.rows) : data.rows[i].user_id = uid
    THEN Take(ItemColumn(data.rows, LAMBDA r : r.user_id = uid), n)
    ELSE PopularByKey(data.rows, n)

\* user_behaviour.py lines 139-146: the list UserBehaviourAnalytics.predict
\* returns.  The ratings being equal, sort_values(by='rating') leaves the
\* user's rated rows in their order and puts the unrated ones last.
UBAPrediction(data, uid, n) ==
    IF \E i \in 1..Len(data.rows) : data.rows[i].user_id = uid
    THEN Take(Unique(ItemColumn(data.rows, LAMBDA r : r.user_id = uid /\ r.rated)
                     \o ItemColumn(data.rows, LAMBDA r : r.user_id = uid /\ ~r.rated)), n)
    ELSE PopularByKey(data.rows, n)

\* context_aware.py lines 73-82: the list ContextAwareSuggestionEngine.predict
\* returns; contextual_features has 'time_of_day' only when the frame had
\* an 'hour' column at training
CEPrediction(component, hour, n) ==
    IF /\ component.features
       /\ \E i \in 1..Len(component.data.rows) : component.data.rows[i].hour = hour
    THEN PopularByAppearance(ItemColumn(component.data.rows, LAMBDA r : r.hour = hour), n)
    ELSE PopularByAppearance(ItemColumn(component.data.rows, LAMBDA r : TRUE), n)

\* a direct call of self.user_analytics.predict
UBAPredict ==
    /\ user_analytics.exists
    /\ op' = "ua_predict"
    /\ outcome' = UBAPredictOutcome(user_analytics)
    /\ \E n \in {num_recommendations} :
          returned' = IF UBAPredictOutcome(user_analytics) = "ok"
                      THEN ReturnedList(UBAPrediction(user_analytics.data, user_id, n), n)
                      ELSE NoReturn
    /\ UNCHANGED <<module, inputs, locals, previous, calls, frames, framework,
                   user_analytics, context_engine>>

\* a direct call of self.context_engine.predict
CEPredict ==
    /\ context_engine.exists
    /\ op' = "ce_predict"
    /\ outcome' = CEPredictOutcome(context_engine)
    /\ \E n \in {num_recommendations} :
          returned' = IF CEPredictOutcome(context_engine) = "ok"
                      THEN ReturnedList(CEPrediction(context_engine, timestamp, n), n)
                      ELSE NoReturn
    /\ UNCHANGED <<module, inputs, locals, previous, calls, frames, framework,
                   user_analytics, context_engine>>

\* ICABARFramework.predict(user_id, timestamp, num_recommendations): lines 73-102
FrameworkPredict ==
    /\ framework.exists
    /\ op' = "predict"
    /\ UNCHANGED <<module, hash_order, vconfig, user_id, timestamp, training_sets,
                   num_recommendations, calls, frames, framework, user_analytics, context_engine>>
    /\ \E n \in {num_recommendations} :
          LET failure ==
                  IF ComponentGate(framework.trained) THEN "RuntimeError"
                  ELSE IF UBAPredictOutcome(user_analytics) # "ok"
                       THEN UBAPredictOutcome(user_analytics)
                  ELSE IF CEPredictOutcome(context_engine) # "ok"
                       THEN CEPredictOutcome(context_engine)
                  ELSE IF UntrainedGate(trained) THEN "RuntimeError"
                  ELSE IF user_analytics_weight = None \/ context_engine_weight = None
                       THEN "AttributeError"
                  ELSE "ok"
          IN  IF failure # "ok"
              THEN /\ outcome' = failure
                   /\ returned' = NoReturn
                   /\ UNCHANGED <<locals, previous, user_predictions, context_predictions>>
              ELSE \E up \in {UBAPrediction(user_analytics.data, user_id, n)},
                      cp \in {CEPrediction(context_engine, timestamp, n)} :
                   \E l \in {IntegrateLocals(up, cp, user_id, timestamp, config,
                                             user_analytics_weight[1],
                                             context_engine_weight[1],
                                             Get(integration_weight, 0), hash_order)} :
                       /\ outcome' = "ok"
                       /\ user_predictions' = up
                       /\ context_predictions' = cp
                       /\ user_scores' = l.user_scores
                       /\ context_scores' = l.context_scores
                       /\ all_items' = l.all_items
                       /\ combined_scores' = l.combined_scores
                       /\ final_scores' = l.final_scores
                       /\ final_recommendations' = l.final_recommendations
                       /\ previous' = [valid |-> TRUE,
                                       repeated |-> previous.valid,
                                       recommendations |-> l.final_recommendations,
                                       scores |-> l.final_scores,
                                       w_user |-> user_analytics_weight[1],
                                       w_context |-> context_engine_weight[1],
                                       novelty_factor |-> config.novelty_factor]
                       /\ returned' = ReturnedList(Take(l.final_recommendations, n), n)

InitFramework ==
    /\ InitModule(DefaultIntegration)
    /\ user_predictions = <<>>
    /\ context_predictions = <<>>
    /\ hash_order \in HashOrders
    /\ vconfig = get_default_config
    /\ user_id \in UserIds
    /\ timestamp \in Hours
    /\ training_sets = TrainingData
    /\ num_recommendations \in NumRecommendations
    /\ InitCall

NextFramework == Construct \/ FrameworkTrain \/ UBAPredict \/ CEPredict \/ FrameworkPredict

SpecFramework == InitFramework /\ [][NextFramework]_vars

\* C17: a construction of ICABARFramework that does not return raises
\* ValueError, whatever is wrong with the configuration (a section without
\* 'ensemble_weights' or 'n_clusters' included), and produces no framework.
C17_MalformedConfigRaisesValueError ==
    [][(op' = "construct" /\ outcome' # "ok")
          => (outcome' = "ValueError" /\ UNCHANGED framework)]_vars

\* the state of the framework and of its components
FrameworkState == <<module, framework, user_analytics, context_engine>>

\* C20: UserBehaviourAnalytics.predict, ContextAwareSuggestionEngine.predict
\* and ICABARFramework.predict, called on a component whose train has not
\* completed, raise RuntimeError, change no state and return no list.
C20_UntrainedPredictFails ==
    [][/\ (op' = "ua_predict" /\ ~user_analytics.trained)
            => (outcome' = "RuntimeError" /\ UNCHANGED FrameworkState)
       /\ (op' = "ce_predict" /\ ~context_engine.trained)
            => (outcome' = "RuntimeError" /\ UNCHANGED FrameworkState)
       /\ (op' = "predict" /\ ~framework.trained)
            => (outcome' = "RuntimeError" /\ UNCHANGED FrameworkState)]_vars

\* a predict was refused on a framework whose train raised part-way: the
\* first component is trained, the second is not, the framework is not
C20_Witness ==
    /\ op = "predict"
    /\ outcome = "RuntimeError"
    /\ ~framework.trained
    /\ user_analytics.trained
    /\ context_engine.exists
    /\ ~context_engine.trained

----------------------------------------------------------------------------
(* utils/config.py: the messages of validate_config *)

\* line 35
MessageKeys ==
    << "C", "o", "n", "f", "i", "g", "u", "r", "a", "t", "i", "o", "n", " ", "m", "u", "s",
       "t", " ", "c", "o", "n", "t", "a", "i", "n", " ", "'", "u", "s", "e", "r", "_", "a",
       "n", "a", "l", "y", "t", "i", "c", "s", "'", ",", " ", "'", "c", "o", "n", "t", "e",
       "x", "t", "_", "e", "n", "g", "i", "n", "e", "'", ",", " ", "a", "n", "d", " ", "'",
       "i", "n", "t", "e", "g", "r", "a", "t", "i", "o", "n", "'", " ", "k", "e", "y", "s",
       "." >>

\* line 38
MessageClusters ==
    << "'", "n", "_", "c", "l", "u", "s", "t", "e", "r", "s", "'", " ", "m", "u", "s", "t",
       " ", "b", "e", " ", "a", " ", "p", "o", "s", "i", "t", "i", "v", "e", " ", "i", "n",
       "t", "e", "g", "e", "r", "." >>

\* line 42
MessageShape ==
    << "'", "e", "n", "s", "e", "m", "b", "l", "e", "_", "w", "e", "i", "g", "h", "t", "s",
       "'", " ", "m", "u", "s", "t", " ", "b", "e", " ", "a", " ", "l", "i", "s", "t", " ",
       "o", "f", " ", "t", "h", "r", "e", "e", " ", "f", "l", "o", "a", "t", "s", "." >>

\* line 45
MessageSum ==
    << "'", "e", "n", "s", "e", "m", "b", "l", "e", "_", "w", "e", "i", "g", "h", "t", "s",
       "'", " ", "m", "u", "s", "t", " ", "s", "u", "m", " ", "t", "o", " ", "1", ".", "0",
       "." >>

\* str() of the exception validate_config raised; str() of a KeyError is
\* the repr of the key, which depends on the key and is left empty here
ErrorMessage(result) ==
    CASE result = "ValueError_keys" -> MessageKeys
      [] result = "ValueError_n_clusters" -> MessageClusters
      [] result = "ValueError_shape" -> MessageShape
      [] result = "ValueError_sum" -> MessageSum
      [] OTHER -> <<>>

\* sub in message
Contains(message, sub) ==
    \E i \in 0..(Len(message) - Len(sub)) : SubSeq(message, i + 1, i + Len(sub)) = sub

\* the phrases the tests look for
ExpectedSum ==
    << "E", "n", "s", "e", "m", "b", "l", "e", " ", "w", "e", "i", "g", "h", "t", "s", " ",
       "m", "u", "s", "t", " ", "s", "u", "m", " ", "t", "o", " ", "1", ".", "0" >>

ExpectedKeys ==
    << "M", "i", "s", "s", "i", "n", "g", " ", "r", "e", "q", "u", "i", "r", "e", "d", " ",
       "k", "e", "y" >>

ExpectedClusters ==
    << "n", "_", "c", "l", "u", "s", "t", "e", "r", "s", " ", "m", "u", "s", "t", " ", "b",
       "e", " ", "a", " ", "p", "o", "s", "i", "t", "i", "v", "e", " ", "i", "n", "t", "e",
       "g", "e", "r" >>

\* validate_config was called on a configuration with all three sections
\* and an 'n_clusters' entry
ClustersValidated ==
    /\ op = "validate_config"
    /\ vconfig.user_analytics # None
    /\ vconfig.context_engine # None
    /\ vconfig.integration # None
    /\ vconfig.user_analytics[1].n_clusters # None

\* n_clusters is an int above zero
PositiveInteger(n_clusters) == IsInt(n_clusters) /\ n_clusters.v > 0

\* C18: validate_config raises ValueError when n_clusters is zero, negative
\* or not an integer, and does not raise on account of n_clusters when it
\* is a positive integer.
C18_ClustersMustBePositiveInteger ==
    /\ ClustersValidated =>
          (outcome = "ValueError_n_clusters"
              <=> ~PositiveInteger(vconfig.user_analytics[1].n_clusters[1]))
    /\ (/\ op = "validate_config"
        /\ vconfig.user_analytics # None
        /\ vconfig.user_analytics[1].n_clusters # None
        /\ ~PositiveInteger(vconfig.user_analytics[1].n_clusters[1]))
          => ExceptionType(outcome) = "ValueError"

\* validate_config refused n_clusters = 0
C18_Witness ==
    /\ ClustersValidated
    /\ vconfig.user_analytics[1].n_clusters[1] = PyInt(0)
    /\ outcome = "ValueError_n_clusters"

\* C19: the message of the validation error contains "Ensemble weights must
\* sum to 1.0" when the weights do not sum to 1.0, "Missing required key"
\* when a section is missing, and "n_clusters must be a positive integer"
\* when n_clusters is not positive.
C19_MessageNamesTheConstraint ==
    op = "validate_config" =>
        /\ outcome = "ValueError_sum" => Contains(ErrorMessage(outcome), ExpectedSum)
        /\ outcome = "ValueError_keys" => Contains(ErrorMessage(outcome), ExpectedKeys)
        /\ outcome = "ValueError_n_clusters" => Contains(ErrorMessage(outcome), ExpectedClusters)

----------------------------------------------------------------------------
(* the messages of the untrained gates *)

\* integration.py line 58
MessageIntegrateUntrained ==
    << "T", "h", "e", " ", "I", "n", "t", "e", "g", "r", "a", "t", "i", "o", "n", "M", "o",
       "d", "u", "l", "e", " ", "h", "a", "s", " ", "n", "o", "t", " ", "b", "e", "e", "n",
       " ", "t", "r", "a", "i", "n", "e", "d", " ", "y", "e", "t", "." >>

\* user_behaviour.py line 136
MessageUBAUntrained ==
    << "T", "h", "e", " ", "U", "s", "e", "r", "B", "e", "h", "a", "v", "i", "o", "u", "r",
       "A", "n", "a", "l", "y", "t", "i", "c", "s", " ", "m", "o", "d", "u", "l", "e", " ",
       "h", "a", "s", " ", "n", "o", "t", " ", "b", "e", "e", "n", " ", "t", "r", "a", "i",
       "n", "e", "d", " ", "y", "e", "t", "." >>

\* context_aware.py line 70
MessageCEUntrained ==
    << "T", "h", "e", " ", "C", "o", "n", "t", "e", "x", "t", "A", "w", "a", "r", "e", "S",
       "u", "g", "g", "e", "s", "t", "i", "o", "n", "E", "n", "g", "i", "n", "e", " ", "h",
       "a", "s", " ", "n", "o", "t", " ", "b", "e", "e", "n", " ", "t", "r", "a", "i", "n",
       "e", "d", " ", "y", "e", "t", "." >>

\* str() of the RuntimeError the gate of this call raises
GateMessage(call) ==
    CASE call = "integrate" -> MessageIntegrateUntrained
      [] call = "ua_predict" -> MessageUBAUntrained
      [] call = "ce_predict" -> MessageCEUntrained
      [] OTHER -> <<>>

\* the messages the tests compare with
ExpectedIntegrating ==
    << "M", "o", "d", "u", "l", "e", " ", "m", "u", "s", "t", " ", "b", "e", " ", "t", "r",
       "a", "i", "n", "e", "d", " ", "f", "i", "r", "s", "t", ".", " ", "C", "a", "l", "l",
       " ", "t", "r", "a", "i", "n", "(", ")", " ", "b", "e", "f", "o", "r", "e", " ", "i",
       "n", "t", "e", "g", "r", "a", "t", "i", "n", "g", "." >>

ExpectedPredicting ==
    << "M", "o", "d", "u", "l", "e", " ", "m", "u", "s", "t", " ", "b", "e", " ", "t", "r",
       "a", "i", "n", "e", "d", " ", "f", "i", "r", "s", "t", ".", " ", "C", "a", "l", "l",
       " ", "t", "r", "a", "i", "n", "(", ")", " ", "b", "e", "f", "o", "r", "e", " ", "p",
       "r", "e", "d", "i", "c", "t", "i", "n", "g", "." >>

\* C21: an integrate call before training fails with the message "Module
\* must be trained first. Call train() before integrating.", and a predict
\* call of UserBehaviourAnalytics or of ContextAwareSuggestionEngine before
\* training fails with "Module must be trained first. Call train() before
\* predicting.".
C21_UntrainedMessageNamesTheMethod ==
    outcome = "RuntimeError" =>
        /\ op = "integrate" => GateMessage(op) = ExpectedIntegrating
        /\ op = "ua_predict" => GateMessage(op) = ExpectedPredicting
        /\ op = "ce_predict" => GateMessage(op) = ExpectedPredicting

----------------------------------------------------------------------------
(* ICABARFramework with the default configuration, trained on one frame *)

\* the interactions a frame is made of
RowTypes == {Row(u, i, h, TRUE) : u \in DataUsers, i \in Items, h \in Hours}

RECURSIVE RowSeqs(_, _)
RowSeqs(types, n) ==
    IF n = 0 THEN {<<>>}
    ELSE LET shorter == RowSeqs(types, n - 1)
         IN  shorter \cup {Append(s, r) : s \in {t \in shorter : Len(t) = n - 1},
                                          r \in types}

\* the frames with all the columns the training reads and one to MaxRows
\* interactions, with and without an 'hour' column
PipelineData ==
    {Data(TRUE, TRUE, has_hour, TRUE, rows) :
        has_hour \in BOOLEAN, rows \in RowSeqs(RowTypes, MaxRows) \ {<<>>}}

\* the state after ICABARFramework(): the default configuration, no
\* component, the caller having the frame data.  The predictions are asked
\* for user1 at hour 0; the frames in which user1 does not occur are the
\* ones for which it is a new user.
Constructed(data) ==
    /\ InitModule(DefaultIntegration)
    /\ user_predictions = <<>>
    /\ context_predictions = <<>>
    /\ hash_order = <<"A", "B", "C">>
    /\ vconfig = get_default_config
    /\ user_id = "user1"
    /\ timestamp = 0
    /\ training_sets = {Some(data)}
    /\ num_recommendations \in NumRecommendations
    /\ calls = [t \in Threads |-> IdleCall]
    /\ frames = [t \in Threads |-> EmptyFrame]
    /\ framework = [exists |-> TRUE, config |-> get_default_config, trained |-> FALSE,
                    components |-> FALSE]
    /\ user_analytics = NoComponent
    /\ context_engine = NoComponent
    /\ returned = NoReturn
    /\ op = "none"
    /\ outcome = "none"
    /\ previous = NoPrevious
    /\ user_scores = EmptyMap
    /\ context_scores = EmptyMap
    /\ all_items = <<>>
    /\ combined_scores = EmptyMap
    /\ final_scores = EmptyMap
    /\ final_recommendations = <<>>

InitPipeline == \E data \in PipelineData : Constructed(data)

NextPipeline == FrameworkTrain \/ UBAPredict \/ CEPredict \/ FrameworkPredict

SpecPipeline == InitPipeline /\ [][NextPipeline]_vars

\* ICABARFramework.predict returned a list
PredictOk == op = "predict" /\ outcome = "ok"

\* C22: predict on a trained framework returns the first num_recommendations
\* items of the list integrate made of the two collaborators' predictions,
\* in the same order; its length is the smaller of num_recommendations and
\* the size of the candidate universe.
C22_PredictTruncatesIntegrate ==
    PredictOk =>
        /\ returned.is_list
        /\ Len(returned.list) <= returned.requested
        /\ Len(returned.list) = IF returned.requested < Cardinality(CandidateUniverse)
                                THEN returned.requested
                                ELSE Cardinality(CandidateUniverse)
        /\ \A i \in 1..Len(returned.list) : returned.list[i] = final_recommendations[i]
        /\ final_recommendations =
              IntegrateLocals(user_predictions, context_predictions, user_id, timestamp, config,
                              user_analytics_weight[1], context_engine_weight[1],
                              Get(integration_weight, 0), hash_order).final_recommendations
        /\ user_predictions = UBAPrediction(user_analytics.data, user_id, returned.requested)
        /\ context_predictions = CEPrediction(context_engine, timestamp, returned.requested)

\* a predict that cut a list of three down to two
C22_Witness ==
    /\ PredictOk
    /\ returned.requested = 2
    /\ Len(final_recommendations) = 3
    /\ Len(returned.list) = 2

\* C23: a train call of the framework on None, on an empty frame or on a
\* frame that lacks a required column raises ValueError, and the trained
\* flag and the three components are after it what they were before.
C23_FailedTrainLeavesNoTrace ==
    [][(op' = "framework_train" /\ outcome' # "ok")
          => /\ outcome' = "ValueError"
             /\ framework'.trained = framework.trained
             /\ UNCHANGED <<module, user_analytics, context_engine>>]_vars

\* ContextAwareSuggestionEngine.predict returned a list
CEPredictOk == op = "ce_predict" /\ outcome = "ok"

\* the items of the interactions made at the hour of the timestamp
ItemsAtHour == ItemColumn(context_engine.data.rows, LAMBDA r : r.hour = timestamp)

\* the items of all interactions
AllItems(data) == ItemColumn(data.rows, LAMBDA r : TRUE)

\* the list has no more than the requested number of items, no item twice,
\* and the items are in descending order of their count in column
MostFrequentFirst(list, column, n) ==
    /\ Len(list) <= n
    /\ NoDuplicates(list)
    /\ \A i \in 1..Len(list) : \A j \in (i + 1)..Len(list) :
          CountOf(column, list[i]) >= CountOf(column, list[j])

\* C24: after training, the context engine's predict for a timestamp whose
\* hour has an interaction in the training data returns only items
\* interacted with at that hour, the most frequent at that hour first, at
\* most num_recommendations of them; it returns the global popularity
\* ranking only when the data has no interaction at that hour.
C24_PredictionsOfTheHour ==
    CEPredictOk =>
        IF ItemsAtHour # <<>>
        THEN /\ Range(returned.list) \subseteq Range(ItemsAtHour)
             /\ MostFrequentFirst(returned.list, ItemsAtHour, returned.requested)
        ELSE MostFrequentFirst(returned.list, AllItems(context_engine.data),
                               returned.requested)

----------------------------------------------------------------------------
(* UserBehaviourAnalytics trained on frames in which ratings are missing *)

\* interactions at one hour, with and without a rating
RatedRowTypes == {Row(u, i, 0, is_rated) : u \in DataUsers, i \in Items, is_rated \in BOOLEAN}

\* the frames of one to MaxRows such interactions, without an 'hour' column
BehaviourData ==
    {Data(TRUE, TRUE, FALSE, TRUE, rows) : rows \in RowSeqs(RatedRowTypes, MaxRows) \ {<<>>}}

InitBehaviour == \E data \in BehaviourData : Constructed(data)

NextBehaviour == FrameworkTrain \/ UBAPredict

SpecBehaviour == InitBehaviour /\ [][NextBehaviour]_vars

\* UserBehaviourAnalytics.predict returned a list
UBAPredictOk == op = "ua_predict" /\ outcome = "ok"

\* the user the prediction is for has an interaction in the training data
KnownUser ==
    \E i \in 1..Len(user_analytics.data.rows) : user_analytics.data.rows[i].user_id = user_id

\* the list holds the requested number of items, or all items if there are
\* fewer, and no item left out has a higher count in column than one in it
TopOf(list, column, n) ==
    /\ Len(list) = (IF n < Cardinality(Range(column)) THEN n ELSE Cardinality(Range(column)))
    /\ Range(list) \subseteq Range(column)
    /\ \A x \in Range(list) : \A y \in Range(column) \ Range(list) :
          CountOf(column, x) >= CountOf(column, y)

\* C25: after training, predict of UserBehaviourAnalytics for a user that
\* does not occur in the training data returns the num_recommendations items
\* with the most interactions, in descending order of interaction count; for
\* a user that occurs it returns only items of that user's interactions, at
\* most num_recommendations.
C25_BehaviourPrediction ==
    UBAPredictOk =>
        IF KnownUser
        THEN /\ Len(returned.list) <= returned.requested
             /\ Range(returned.list) \subseteq
                   Range(ItemColumn(user_analytics.data.rows, LAMBDA r : r.user_id = user_id))
        ELSE /\ MostFrequentFirst(returned.list, AllItems(user_analytics.data),
                                  returned.requested)
             /\ TopOf(returned.list, AllItems(user_analytics.data), returned.requested)

\* C26: on a trained framework, predict for a user that does not occur in
\* the training data returns the num_recommendations most popular items of
\* the whole data in descending order of popularity, at every timestamp.
C26_ColdStartIsPopularity ==
    (PredictOk /\ ~KnownUser) =>
        /\ MostFrequentFirst(returned.list, AllItems(user_analytics.data), returned.requested)
        /\ TopOf(returned.list, AllItems(user_analytics.data), returned.requested)

----------------------------------------------------------------------------
(* Items of equal score *)

\* x comes before y in list
Before(list, x, y) ==
    \E i, j \in 1..Len(list) : i < j /\ list[i] = x /\ list[j] = y

\* two different items of the universe have the same combined score
Tied(x, y) ==
    /\ x # y
    /\ x \in DOMAIN final_scores
    /\ y \in DOMAIN final_scores
    /\ RatEq(final_scores[x], final_scores[y])

\* C27: two items of exactly equal combined score are returned by integrate
\* in the order in which the set union of the two lists enumerates them, an
\* order the arguments and the weights do not determine.
C27_TiesKeepEnumerationOrder ==
    IntegrateOk =>
        \A x, y \in Items :
            (Tied(x, y) /\ Before(hash_order, x, y)) => Before(final_recommendations, x, y)

\* the lists ['A','B'] and ['B','A'] with the weights 0.5 and 0.5 and the
\* novelty factor 0.1 give A and B the score 0.825 each
TiedInputs ==
    /\ IntegrateOk
    /\ user_predictions = <<"A", "B">>
    /\ context_predictions = <<"B", "A">>
    /\ user_analytics_weight = Some(1000000)
    /\ context_engine_weight = Some(1000000)
    /\ config.novelty_factor = Some(1)
    /\ Tied("A", "B")

\* for these arguments and weights integrate returned B before A
C27_Witness == TiedInputs /\ final_recommendations = <<"B", "A">>

\* for the same arguments and weights integrate returned A before B
C27_WitnessOtherOrder == TiedInputs /\ final_recommendations = <<"A", "B">>

\* C28: whenever the framework's trained flag is True, its three components
\* exist and are trained, so a predict that passes the framework's gate is
\* not refused by the gate of a component.
C28_TrainedFrameworkHasTrainedComponents ==
    framework.trained =>
        /\ framework.components
        /\ user_analytics.trained
        /\ context_engine.trained
        /\ trained
        /\ op = "predict" => outcome = "ok"

----------------------------------------------------------------------------
(* IntegrationModule.train, all or nothing *)

\* the configuration has no 'ensemble_weights' or not exactly three of them
WeightsUnusable ==
    \/ config.ensemble_weights = None
    \/ Len(config.ensemble_weights[1].elems) # 3

ModuleWeightAttributes == <<user_analytics_weight, context_engine_weight, integration_weight>>

\* C29: train of IntegrationModule fails when 'ensemble_weights' is missing
\* or has not exactly three elements, and then leaves the trained flag and
\* the weights loaded before as they were; when it succeeds the flag is True
\* and the weights are assigned; a trained module has its user and context
\* weights defined, and the flag never returns to False.
C29_TrainAllOrNothing ==
    [][/\ (op' = "train" /\ WeightsUnusable)
            => /\ outcome' \in {"KeyError", "ValueError"}
               /\ UNCHANGED <<trained, ModuleWeightAttributes>>
       /\ (op' = "train" /\ ~WeightsUnusable)
            => /\ outcome' = "ok"
               /\ trained'
       /\ trained' => (user_analytics_weight' # None /\ context_engine_weight' # None)
       /\ trained => trained']_vars

\* a train that failed on a module trained before: the flag and the weights
\* of the earlier train are still there
C29_Witness ==
    /\ op = "train"
    /\ outcome \in {"KeyError", "ValueError"}
    /\ trained
    /\ user_analytics_weight # None
    /\ context_engine_weight # None

\* a first train that failed: the module is untrained and has no weights
C29_WitnessUntrained ==
    /\ op = "train"
    /\ outcome \in {"KeyError", "ValueError"}
    /\ ~trained
    /\ user_analytics_weight = None

----------------------------------------------------------------------------
(* The lists the framework hands to integrate *)

\* C30: the lists ICABARFramework.predict hands to integrate hold no item
\* twice and at most num_recommendations items, and the list it returns
\* holds no item twice.
C30_PipelineListsAreDuplicateFree ==
    PredictOk =>
        /\ NoDuplicates(user_predictions)
        /\ NoDuplicates(context_predictions)
        /\ Len(user_predictions) <= returned.requested
        /\ Len(context_predictions) <= returned.requested
        /\ NoDuplicates(returned.list)

\* a prediction for a user who interacted twice with one item and once with
\* another, at an hour at which one item occurs twice
C30_Witness ==
    /\ PredictOk
    /\ KnownUser
    /\ Len(user_predictions) = 2
    /\ Len(ItemColumn(user_analytics.data.rows, LAMBDA r : r.user_id = user_id)) = 3
    /\ context_engine.features
    /\ \E x \in Items : CountOf(ItemsAtHour, x) >= 2

====
